---- MODULE Spec2Model ----
(***************************************************************************)
(* Huffman compressor/decompressor of src/cm.py.                           *)
(*                                                                         *)
(* Symbols are Unicode scalar values; the model draws them from the ASCII  *)
(* letters 'a', 'b', ... (code points 97, 98, ...), whose UTF-8 encoding   *)
(* is the single byte equal to the code point.  A Python bit-string        *)
(* ('0'/'1' characters) is a sequence over {0, 1}.  A Python dict is a     *)
(* sequence of entries in insertion order.  Node objects live in an arena  *)
(* `nodes`; a reference to a Node is its index, None is 0.                 *)
(***************************************************************************)
EXTENDS Integers, Sequences, FiniteSets, TLC

\* Bounds of the model.
MaxLen == 6
NumChars == 4

None == 0
Chars == 97..(96 + NumChars)
Texts == UNION {[1..n -> Chars] : n \in 0..MaxLen}

----------------------------------------------------------------------------
(* Node and the frequency table                                            *)

Node(char, freq) == [char |-> char, freq |-> freq, left |-> None, right |-> None]

\* Mutant of Node.__lt__: the comparison turned round.
Node__lt__reversed(self, other) == self.freq > other.freq

Node__lt__(self, other) == self.freq < other.freq

\* frequencies[char] += 1 on a defaultdict(int): a new key goes to the end.
increment(frequencies, char) ==
    LET hit == {i \in 1..Len(frequencies) : frequencies[i].char = char}
    IN  IF hit = {}
        THEN Append(frequencies, [char |-> char, freq |-> 1])
        ELSE LET i == CHOOSE i \in hit : TRUE
             IN  [frequencies EXCEPT ![i].freq = @ + 1]

RECURSIVE count_chars(_, _)
count_chars(txt, frequencies) ==
    IF txt = <<>> THEN frequencies
    ELSE count_chars(Tail(txt), increment(frequencies, Head(txt)))

----------------------------------------------------------------------------
(* heapq, as called by build_huffman_tree.  Positions are 0-based as in    *)
(* the library; heap[pos + 1] is the element at position pos.              *)

RECURSIVE siftdown_loop(_, _, _, _, _)
siftdown_loop(ns, h, startpos, pos, newitem) ==
    IF pos > startpos
    THEN LET parentpos == (pos - 1) \div 2
             parent == h[parentpos + 1]
         IN  IF Node__lt__(ns[newitem], ns[parent])
             THEN siftdown_loop(ns, [h EXCEPT ![pos + 1] = parent],
                                startpos, parentpos, newitem)
             ELSE [h EXCEPT ![pos + 1] = newitem]
    ELSE [h EXCEPT ![pos + 1] = newitem]

siftdown(ns, h, startpos, pos) == siftdown_loop(ns, h, startpos, pos, h[pos + 1])

RECURSIVE siftup_loop(_, _, _, _, _)
siftup_loop(ns, h, startpos, pos, newitem) ==
    LET endpos == Len(h)
        childpos == 2 * pos + 1
    IN  IF childpos < endpos
        THEN LET rightpos == childpos + 1
                 c == IF rightpos < endpos
                         /\ ~ Node__lt__(ns[h[childpos + 1]], ns[h[rightpos + 1]])
                      THEN rightpos ELSE childpos
             IN  siftup_loop(ns, [h EXCEPT ![pos + 1] = h[c + 1]], startpos, c, newitem)
        ELSE siftdown(ns, [h EXCEPT ![pos + 1] = newitem], startpos, pos)

siftup(ns, h, pos) == siftup_loop(ns, h, pos, pos, h[pos + 1])

RECURSIVE heapify_from(_, _, _)
heapify_from(ns, h, i) ==
    IF i < 0 THEN h ELSE heapify_from(ns, siftup(ns, h, i), i - 1)

heapify(ns, h) == heapify_from(ns, h, (Len(h) \div 2) - 1)

\* heappop returns the popped item and the heap that is left.
heappop(ns, h) ==
    LET lastelt == h[Len(h)]
        rest == SubSeq(h, 1, Len(h) - 1)
    IN  IF rest # <<>>
        THEN [item |-> rest[1], heap |-> siftup(ns, [rest EXCEPT ![1] = lastelt], 0)]
        ELSE [item |-> lastelt, heap |-> rest]

heappush(ns, h, item) == siftdown(ns, Append(h, item), 0, Len(h))

----------------------------------------------------------------------------
(* Codebook                                                                *)

HasKey(codebook, char) == \E i \in 1..Len(codebook) : codebook[i].char = char

Lookup(codebook, char) ==
    codebook[CHOOSE i \in 1..Len(codebook) : codebook[i].char = char].code

\* codebook[char] = prefix on a dict.
setitem(codebook, char, prefix) ==
    IF HasKey(codebook, char)
    THEN [i \in 1..Len(codebook) |->
            IF codebook[i].char = char
            THEN [char |-> char, code |-> prefix] ELSE codebook[i]]
    ELSE Append(codebook, [char |-> char, code |-> prefix])

\* Mutant of generate_codes: the right subtree is walked with the prefix
\* left as it is.
RECURSIVE generate_codes_noright(_, _, _, _)
generate_codes_noright(ns, node, prefix, codebook) ==
    IF ns[node].char # None
    THEN setitem(codebook, ns[node].char, prefix)
    ELSE generate_codes_noright(ns, ns[node].right, prefix,
            generate_codes_noright(ns, ns[node].left, Append(prefix, 0), codebook))

RECURSIVE generate_codes(_, _, _, _)
generate_codes(ns, node, prefix, codebook) ==
    IF ns[node].char # None
    THEN setitem(codebook, ns[node].char, prefix)
    ELSE generate_codes(ns, ns[node].right, Append(prefix, 1),
            generate_codes(ns, ns[node].left, Append(prefix, 0), codebook))

RECURSIVE encode_text(_, _)
encode_text(txt, codebook) ==
    IF txt = <<>> THEN <<>>
    ELSE Lookup(codebook, Head(txt)) \o encode_text(Tail(txt), codebook)

----------------------------------------------------------------------------
(* Bits and bytes                                                          *)

Zeros(n) == [i \in 1..n |-> 0]

\* int(s, 2)
RECURSIVE int2(_)
int2(s) == IF s = <<>> THEN 0 ELSE 2 * int2(SubSeq(s, 1, Len(s) - 1)) + s[Len(s)]

\* Mutant of the byte formatting: least-significant bit first.
format08b_lsb(byte) == [k \in 1..8 |-> (byte \div (2 ^ (k - 1))) % 2]

\* f'{byte:08b}'
format08b(byte) == [k \in 1..8 |-> (byte \div (2 ^ (8 - k))) % 2]

\* Mutant of the pad length: the outer % 8 dropped.
PadLen_nomod(encoded_text) == 8 - (Len(encoded_text) % 8)

PadLen(encoded_text) == (8 - (Len(encoded_text) % 8)) % 8

padded_text(encoded_text) == encoded_text \o Zeros(PadLen(encoded_text))

\* bytearray(int(padded[i:i+8], 2) for i in range(0, len(padded), 8))
byte_array(padded) ==
    [i \in 1..((Len(padded) + 7) \div 8) |->
        int2(SubSeq(padded, 8 * (i - 1) + 1,
                    IF 8 * i < Len(padded) THEN 8 * i ELSE Len(padded)))]

RECURSIVE bits_of(_)
bits_of(byte_data) ==
    IF byte_data = <<>> THEN <<>>
    ELSE format08b(Head(byte_data)) \o bits_of(Tail(byte_data))

----------------------------------------------------------------------------
(* decode_text                                                             *)

\* reverse_codebook = {v: k for k, v in codebook.items()}: for a code bound
\* to several symbols the last one inserted wins.
InReverse(codebook, code) == \E i \in 1..Len(codebook) : codebook[i].code = code

ReverseLookup(codebook, code) ==
    LET hit == {i \in 1..Len(codebook) : codebook[i].code = code}
        last == CHOOSE i \in hit : \A j \in hit : j <= i
    IN  codebook[last].char

RECURSIVE decode_loop(_, _, _, _)
decode_loop(encoded_text, codebook, current_code, decoded_text) ==
    IF encoded_text = <<>> THEN decoded_text
    ELSE LET code == Append(current_code, Head(encoded_text))
         IN  IF InReverse(codebook, code)
             THEN decode_loop(Tail(encoded_text), codebook, <<>>,
                              Append(decoded_text, ReverseLookup(codebook, code)))
             ELSE decode_loop(Tail(encoded_text), codebook, code, decoded_text)

decode_text(encoded_text, codebook) == decode_loop(encoded_text, codebook, <<>>, <<>>)

----------------------------------------------------------------------------
(* pickle (protocol 4) of a dict of str -> str, as written by write_header *)
(* and read by read_header.  Opcodes: 128 PROTO, 149 FRAME, 125 EMPTY_DICT,*)
(* 148 MEMOIZE, 40 MARK, 140 SHORT_BINUNICODE, 115 SETITEM, 117 SETITEMS,  *)
(* 46 STOP.                                                                *)

\* 8-byte little-endian length of a FRAME.
RECURSIVE le_bytes(_, _)
le_bytes(n, k) == IF k = 0 THEN <<>> ELSE <<n % 256>> \o le_bytes(n \div 256, k - 1)

RECURSIVE le_value(_)
le_value(bs) == IF bs = <<>> THEN 0 ELSE bs[1] + 256 * le_value(Tail(bs))

pickle_str(utf8) == <<140, Len(utf8)>> \o utf8 \o <<148>>

code_utf8(code) == [i \in 1..Len(code) |-> 48 + code[i]]

RECURSIVE pickle_items(_)
pickle_items(codebook) ==
    IF codebook = <<>> THEN <<>>
    ELSE pickle_str(<<Head(codebook).char>>) \o pickle_str(code_utf8(Head(codebook).code))
         \o pickle_items(Tail(codebook))

pickle_dumps(codebook) ==
    LET items == pickle_items(codebook)
        body == <<125, 148>>
                \o (IF Len(codebook) = 0 THEN <<>>
                    ELSE IF Len(codebook) = 1 THEN items \o <<115>>
                    ELSE <<40>> \o items \o <<117>>)
                \o <<46>>
    IN  <<128, 4>>
        \o (IF Len(body) >= 4 THEN <<149>> \o le_bytes(Len(body), 8) ELSE <<>>)
        \o body

PickleError == [ok |-> FALSE, codebook |-> <<>>]

\* One SHORT_BINUNICODE string with its MEMOIZE, at position pos of bs.
parse_str(bs, pos) ==
    IF pos + 1 <= Len(bs) /\ bs[pos] = 140
       /\ pos + 1 + bs[pos + 1] + 1 <= Len(bs)
       /\ bs[pos + 1 + bs[pos + 1] + 1] = 148
    THEN [ok |-> TRUE, utf8 |-> SubSeq(bs, pos + 2, pos + 1 + bs[pos + 1]),
          next |-> pos + bs[pos + 1] + 3]
    ELSE [ok |-> FALSE, utf8 |-> <<>>, next |-> pos]

IsCodeUtf8(utf8) == \A i \in 1..Len(utf8) : utf8[i] \in {48, 49}

\* Key/value pairs up to the opcode `stop` (SETITEM or SETITEMS), then STOP.
RECURSIVE parse_items(_, _, _, _)
parse_items(bs, pos, stop, codebook) ==
    IF pos > Len(bs) THEN PickleError
    ELSE IF bs[pos] = stop /\ codebook # <<>>
    THEN IF pos + 1 <= Len(bs) /\ bs[pos + 1] = 46
         THEN [ok |-> TRUE, codebook |-> codebook] ELSE PickleError
    ELSE LET k == parse_str(bs, pos)
             v == parse_str(bs, k.next)
         IN  IF k.ok /\ v.ok /\ Len(k.utf8) = 1 /\ IsCodeUtf8(v.utf8)
             THEN parse_items(bs, v.next, stop,
                     setitem(codebook, k.utf8[1],
                             [i \in 1..Len(v.utf8) |-> v.utf8[i] - 48]))
             ELSE PickleError

parse_body(bs, pos) ==
    IF pos + 2 <= Len(bs) /\ bs[pos] = 125 /\ bs[pos + 1] = 148
    THEN IF bs[pos + 2] = 46 THEN [ok |-> TRUE, codebook |-> <<>>]
         ELSE IF bs[pos + 2] = 40 THEN parse_items(bs, pos + 3, 117, <<>>)
         ELSE parse_items(bs, pos + 2, 115, <<>>)
    ELSE PickleError

\* pickle.load: a frame that is longer than what is left of the file is
\* "pickle data was truncated".
pickle_load(bs) ==
    IF Len(bs) >= 3 /\ bs[1] = 128 /\ bs[2] = 4
    THEN IF bs[3] = 149
         THEN IF Len(bs) >= 11 /\ Len(bs) >= 11 + le_value(SubSeq(bs, 4, 11))
              THEN parse_body(SubSeq(bs, 1, 11 + le_value(SubSeq(bs, 4, 11))), 12)
              ELSE PickleError
         ELSE parse_body(bs, 3)
    ELSE PickleError

----------------------------------------------------------------------------
(* build_huffman_tree                                                      *)

\* heap = [Node(char, freq) for char, freq in frequencies.items()]
leaves(frequencies) ==
    [i \in 1..Len(frequencies) |-> Node(frequencies[i].char, frequencies[i].freq)]

\* Mutant of the loop body: the children the other way round.
merge_swapped(ns, h) ==
    LET left == heappop(ns, h)
        right == heappop(ns, left.heap)
        merged == [char |-> None,
                   freq |-> ns[left.item].freq + ns[right.item].freq,
                   left |-> right.item, right |-> left.item]
        ns2 == Append(ns, merged)
    IN  [nodes |-> ns2, heap |-> heappush(ns2, right.heap, Len(ns2))]

\* One iteration of the while loop: two pops, a new Node, one push.
merge(ns, h) ==
    LET left == heappop(ns, h)
        right == heappop(ns, left.heap)
        merged == [char |-> None,
                   freq |-> ns[left.item].freq + ns[right.item].freq,
                   left |-> left.item, right |-> right.item]
        ns2 == Append(ns, merged)
    IN  [nodes |-> ns2, heap |-> heappush(ns2, right.heap, Len(ns2))]

----------------------------------------------------------------------------
(* State                                                                   *)

VARIABLES
    pc,            \* position in compress_file, then in decompress_file
    inputExists,   \* whether compress_file's input file can be opened
    text,          \* contents of the input file
    frequencies,   \* compress_file: frequency table
    nodes,         \* arena of Node objects
    heap,          \* build_huffman_tree: the heap, a list of Node references
    huffman_tree,  \* compress_file: root of the tree
    codebook,      \* compress_file: codebook
    container,     \* the file compress_file writes and decompress_file reads
    truncated,     \* whether the container lost its last byte
    d_codebook,    \* decompress_file: codebook read by read_header
    decoded_text,  \* decompress_file: decoded_text
    restored       \* the file decompress_file writes

vars == <<pc, inputExists, text, frequencies, nodes, heap, huffman_tree, codebook,
          container, truncated, d_codebook, decoded_text, restored>>

NoFile == [exists |-> FALSE, data |-> <<>>]

Init ==
    /\ pc = "start"
    /\ inputExists \in BOOLEAN
    /\ text \in (IF inputExists THEN Texts ELSE {<<>>})
    /\ frequencies = <<>>
    /\ nodes = <<>>
    /\ heap = <<>>
    /\ huffman_tree = None
    /\ codebook = <<>>
    /\ container = NoFile
    /\ truncated = FALSE
    /\ d_codebook = <<>>
    /\ decoded_text = <<>>
    /\ restored = NoFile

----------------------------------------------------------------------------
(* compress_file                                                           *)

\* calculate_frequencies, the file is there.
CalculateFrequencies ==
    /\ pc = "start"
    /\ inputExists
    /\ frequencies' = count_chars(text, <<>>)
    /\ pc' = "counted"
    /\ UNCHANGED <<inputExists, text, nodes, heap, huffman_tree, codebook,
                   container, truncated, d_codebook, decoded_text, restored>>

\* calculate_frequencies, FileNotFoundError: sys.exit(1).
InputNotFound ==
    /\ pc = "start"
    /\ ~ inputExists
    /\ pc' = "failed"
    /\ UNCHANGED <<inputExists, text, frequencies, nodes, heap, huffman_tree, codebook,
                   container, truncated, d_codebook, decoded_text, restored>>

\* build_huffman_tree up to the loop: the leaves, heapify.
BuildHeap ==
    /\ pc = "counted"
    /\ nodes' = leaves(frequencies)
    /\ heap' = heapify(nodes', [i \in 1..Len(frequencies) |-> i])
    /\ pc' = "merging"
    /\ UNCHANGED <<inputExists, text, frequencies, huffman_tree, codebook,
                   container, truncated, d_codebook, decoded_text, restored>>

MergeStep ==
    /\ pc = "merging"
    /\ Len(heap) > 1
    /\ nodes' = merge(nodes, heap).nodes
    /\ heap' = merge(nodes, heap).heap
    /\ UNCHANGED <<pc, inputExists, text, frequencies, huffman_tree, codebook,
                   container, truncated, d_codebook, decoded_text, restored>>

\* return heap[0]
ReturnRoot ==
    /\ pc = "merging"
    /\ Len(heap) = 1
    /\ huffman_tree' = heap[1]
    /\ pc' = "built"
    /\ UNCHANGED <<inputExists, text, frequencies, nodes, heap, codebook,
                   container, truncated, d_codebook, decoded_text, restored>>

\* return heap[0] on an empty heap: IndexError.
ReturnRootIndexError ==
    /\ pc = "merging"
    /\ Len(heap) = 0
    /\ pc' = "failed"
    /\ UNCHANGED <<inputExists, text, frequencies, nodes, heap, huffman_tree, codebook,
                   container, truncated, d_codebook, decoded_text, restored>>

GenerateCodes ==
    /\ pc = "built"
    /\ codebook' = generate_codes(nodes, huffman_tree, <<>>, <<>>)
    /\ pc' = "coded"
    /\ UNCHANGED <<inputExists, text, frequencies, nodes, heap, huffman_tree,
                   container, truncated, d_codebook, decoded_text, restored>>

\* open(filename, 'wb') creates or truncates the file; pickle.dump.
WriteHeader ==
    /\ pc = "coded"
    /\ container' = [exists |-> TRUE, data |-> pickle_dumps(codebook)]
    /\ pc' = "header"
    /\ UNCHANGED <<inputExists, text, frequencies, nodes, heap, huffman_tree, codebook,
                   truncated, d_codebook, decoded_text, restored>>

\* open(filename, 'wb') raises OSError: nothing is created.
WriteHeaderOSError ==
    /\ pc = "coded"
    /\ pc' = "failed"
    /\ UNCHANGED <<inputExists, text, frequencies, nodes, heap, huffman_tree, codebook,
                   container, truncated, d_codebook, decoded_text, restored>>

\* write_encoded_text: open(filename, 'ab') and write.
WriteEncodedText ==
    /\ pc = "header"
    /\ container' = [container EXCEPT
           !.data = @ \o byte_array(padded_text(encode_text(text, codebook)))]
    /\ pc' = "compressed"
    /\ UNCHANGED <<inputExists, text, frequencies, nodes, heap, huffman_tree, codebook,
                   truncated, d_codebook, decoded_text, restored>>

\* open(filename, 'ab') or file.write raises OSError: the header stays.
WriteEncodedTextOSError ==
    /\ pc = "header"
    /\ pc' = "failed"
    /\ UNCHANGED <<inputExists, text, frequencies, nodes, heap, huffman_tree, codebook,
                   container, truncated, d_codebook, decoded_text, restored>>

----------------------------------------------------------------------------
(* The container loses its last byte between the two runs.                 *)

Truncate ==
    /\ pc = "compressed"
    /\ ~ truncated
    /\ container.data # <<>>
    /\ container' = [container EXCEPT !.data = SubSeq(@, 1, Len(@) - 1)]
    /\ truncated' = TRUE
    /\ UNCHANGED <<pc, inputExists, text, frequencies, nodes, heap, huffman_tree,
                   codebook, d_codebook, decoded_text, restored>>

----------------------------------------------------------------------------
(* decompress_file                                                         *)

ReadHeader ==
    /\ pc = "compressed"
    /\ pickle_load(container.data).ok
    /\ d_codebook' = pickle_load(container.data).codebook
    /\ pc' = "d_header"
    /\ UNCHANGED <<inputExists, text, frequencies, nodes, heap, huffman_tree, codebook,
                   container, truncated, decoded_text, restored>>

\* pickle.load raises.
ReadHeaderError ==
    /\ pc = "compressed"
    /\ ~ pickle_load(container.data).ok
    /\ pc' = "d_failed"
    /\ UNCHANGED <<inputExists, text, frequencies, nodes, heap, huffman_tree, codebook,
                   container, truncated, d_codebook, decoded_text, restored>>

\* file.seek(len(pickle.dumps(codebook))); byte_data = file.read()
read_payload(data, cb) == SubSeq(data, Len(pickle_dumps(cb)) + 1, Len(data))

read_encoded_text(data, cb) == decode_text(bits_of(read_payload(data, cb)), cb)

ReadEncodedText ==
    /\ pc = "d_header"
    /\ decoded_text' = read_encoded_text(container.data, d_codebook)
    /\ pc' = "d_decoded"
    /\ UNCHANGED <<inputExists, text, frequencies, nodes, heap, huffman_tree, codebook,
                   container, truncated, d_codebook, restored>>

\* open(output_file, 'w') and write.
WriteRestored ==
    /\ pc = "d_decoded"
    /\ restored' = [exists |-> TRUE, data |-> decoded_text]
    /\ pc' = "d_done"
    /\ UNCHANGED <<inputExists, text, frequencies, nodes, heap, huffman_tree, codebook,
                   container, truncated, d_codebook, decoded_text>>

\* open(output_file, 'w') raises OSError: nothing is created.
WriteRestoredOSError ==
    /\ pc = "d_decoded"
    /\ pc' = "d_failed"
    /\ UNCHANGED <<inputExists, text, frequencies, nodes, heap, huffman_tree, codebook,
                   container, truncated, d_codebook, decoded_text, restored>>

Next ==
    \/ CalculateFrequencies
    \/ InputNotFound
    \/ BuildHeap
    \/ MergeStep
    \/ ReturnRoot
    \/ ReturnRootIndexError
    \/ GenerateCodes
    \/ WriteHeader
    \/ WriteHeaderOSError
    \/ WriteEncodedText
    \/ WriteEncodedTextOSError
    \/ Truncate
    \/ ReadHeader
    \/ ReadHeaderError
    \/ ReadEncodedText
    \/ WriteRestored
    \/ WriteRestoredOSError

Spec == Init /\ [][Next]_vars

----------------------------------------------------------------------------
(* Properties                                                              *)

IsPrefix(a, b) == Len(a) <= Len(b) /\ SubSeq(b, 1, Len(a)) = a

CodebookBuilt ==
    pc \in {"coded", "header", "compressed", "d_header", "d_decoded", "d_done", "d_failed"}

RECURSIVE leaf_chars(_, _)
leaf_chars(ns, node) ==
    IF ns[node].char # None THEN <<ns[node].char>>
    ELSE leaf_chars(ns, ns[node].left) \o leaf_chars(ns, ns[node].right)

RECURSIVE leftmost_leaf(_, _)
leftmost_leaf(ns, node) ==
    IF ns[node].char # None THEN ns[node].char ELSE leftmost_leaf(ns, ns[node].left)

Range(s) == {s[i] : i \in 1..Len(s)}

Payload == SubSeq(container.data, Len(pickle_dumps(codebook)) + 1, Len(container.data))

\* C1: decompress_file applied to the container compress_file wrote for S
\* writes exactly S.
RoundTrip ==
    (pc = "d_done" /\ ~ truncated) => restored.data = text

\* C2: in the codebook no symbol's code is a prefix of, or equal to, the code
\* of a different symbol, and the codebook has exactly one entry for each
\* symbol of the frequency table.
PrefixFreeCodes ==
    CodebookBuilt =>
        /\ \A i, j \in 1..Len(codebook) :
              i # j => /\ codebook[i].char # codebook[j].char
                       /\ ~ IsPrefix(codebook[i].code, codebook[j].code)
        /\ Len(codebook) = Len(frequencies)
        /\ {codebook[i].char : i \in 1..Len(codebook)}
              = {frequencies[i].char : i \in 1..Len(frequencies)}

PrefixFreeCodesWitness ==
    pc = "coded" /\ Len(codebook) >= 3

\* C3: every code of the codebook is a non-empty bit-string, also when the
\* input has one distinct symbol.
CodesNonEmpty ==
    CodebookBuilt => \A i \in 1..Len(codebook) : codebook[i].code # <<>>

\* C4: decompress_file on a container that lost its last byte ends in an
\* error; it never completes.
TruncatedContainerRejected ==
    ~ (truncated /\ pc = "d_done")

\* C5: a run that ends in a failure has not created or written its output
\* file.
AllOrNothingOutput ==
    /\ pc = "failed" => ~ container.exists
    /\ pc = "d_failed" => ~ restored.exists

\* C6: a symbol that occurs strictly more often than another has a code that
\* is no longer.
FrequentSymbolsShorter ==
    CodebookBuilt =>
        \A i, j \in 1..Len(frequencies) :
            frequencies[i].freq > frequencies[j].freq =>
                Len(Lookup(codebook, frequencies[i].char))
                    <= Len(Lookup(codebook, frequencies[j].char))

FrequentSymbolsShorterWitness ==
    /\ pc = "coded"
    /\ \E i, j \in 1..Len(frequencies) :
          /\ frequencies[i].freq > frequencies[j].freq
          /\ Len(Lookup(codebook, frequencies[i].char))
                < Len(Lookup(codebook, frequencies[j].char))

\* One step of the merge loop: the two nodes taken out have the two smallest
\* frequencies of the collection, the new node is internal, has their sum as
\* frequency, the first-extracted node (the top of the heap) as left child and
\* the second-extracted node as right child, and replaces them in the heap.
MergeStepProp ==
    (pc = "merging" /\ pc' = "merging") =>
        /\ Len(heap) > 1
        /\ Len(heap') = Len(heap) - 1
        /\ Len(nodes') = Len(nodes) + 1
        /\ SubSeq(nodes', 1, Len(nodes)) = nodes
        /\ LET merged == nodes'[Len(nodes')]
               l == merged.left
               r == merged.right
           IN  /\ merged.char = None
               /\ l \in Range(heap) /\ r \in Range(heap) /\ l # r
               /\ l = heap[1]
               /\ \A k \in Range(heap) : nodes[l].freq <= nodes[k].freq
               /\ \A k \in Range(heap) \ {l} : nodes[r].freq <= nodes[k].freq
               /\ merged.freq = nodes[l].freq + nodes[r].freq
               /\ Range(heap') = (Range(heap) \ {l, r}) \cup {Len(nodes')}

\* The returned root: n - 1 merges were made, one node is left, the root's
\* frequency is the sum of all counts and its leaves are the n symbols, each
\* once.
RootProp ==
    pc = "built" =>
        /\ Len(frequencies) >= 1
        /\ Len(nodes) - Len(frequencies) = Len(frequencies) - 1
        /\ Len(heap) = 1
        /\ nodes[huffman_tree].freq = Len(text)
        /\ Len(leaf_chars(nodes, huffman_tree)) = Len(frequencies)
        /\ Range(leaf_chars(nodes, huffman_tree))
              = {frequencies[i].char : i \in 1..Len(frequencies)}
        /\ Cardinality(Range(leaf_chars(nodes, huffman_tree))) = Len(frequencies)

\* C8: the merge loop ends after n - 1 merges with one node left; every merge
\* takes out the two lowest-frequency nodes and makes them the left and right
\* child of a node whose frequency is their sum; the root's frequency is the
\* sum of the counts and its leaves are exactly the n symbols.
TreeConstruction == [][MergeStepProp]_vars /\ [](RootProp)

TreeConstructionWitness ==
    pc = "built" /\ Len(frequencies) >= 3 /\ Len(nodes) = 2 * Len(frequencies) - 1

\* C9: the payload is the concatenation of the symbols' codes in input order
\* followed by p zero bits, p the smallest number in 0..7 that makes the
\* length a multiple of 8, grouped into bytes most-significant bit first; it
\* has ceil(L/8) bytes.
BitPacking ==
    (pc = "compressed" /\ ~ truncated) =>
        LET L == Len(encode_text(text, codebook))
            p == CHOOSE q \in 0..7 :
                    (L + q) % 8 = 0 /\ \A q2 \in 0..(q - 1) : (L + q2) % 8 # 0
            bits == encode_text(text, codebook) \o Zeros(p)
        IN  /\ SubSeq(container.data, 1, Len(pickle_dumps(codebook)))
                  = pickle_dumps(codebook)
            /\ Len(Payload) = (L + 7) \div 8
            /\ 8 * Len(Payload) = Len(bits)
            /\ \A i \in 1..Len(Payload) :
                  Payload[i] = 128 * bits[8 * i - 7] + 64 * bits[8 * i - 6]
                               + 32 * bits[8 * i - 5] + 16 * bits[8 * i - 4]
                               + 8 * bits[8 * i - 3] + 4 * bits[8 * i - 2]
                               + 2 * bits[8 * i - 1] + bits[8 * i]

BitPackingWitness ==
    /\ pc = "compressed" /\ ~ truncated
    /\ Len(Payload) >= 2
    /\ Len(encode_text(text, codebook)) % 8 # 0

\* C10: for an input with at least two distinct symbols the decoded text
\* begins with the input, and what follows is at most 7 symbols, all of them
\* the symbol whose code is all zeros (the leftmost leaf).
DecodedStartsWithText ==
    (pc \in {"d_decoded", "d_done"} /\ ~ truncated /\ Len(frequencies) >= 2) =>
        /\ Len(decoded_text) >= Len(text)
        /\ SubSeq(decoded_text, 1, Len(text)) = text
        /\ Len(decoded_text) - Len(text) <= 7
        /\ \A k \in (Len(text) + 1)..Len(decoded_text) :
              /\ decoded_text[k] = leftmost_leaf(nodes, huffman_tree)
              /\ Lookup(codebook, decoded_text[k])
                    = Zeros(Len(Lookup(codebook, decoded_text[k])))

DecodedStartsWithTextWitness ==
    /\ pc = "d_decoded" /\ ~ truncated /\ Len(frequencies) >= 2
    /\ Len(decoded_text) > Len(text)

====
